---- MODULE Spec2Model ----
(***************************************************************************)
(* A model of src/client.ts: the Client of safeclient.js, which encrypts   *)
(* request bodies and query strings, dispatches the request through        *)
(* superagent, and decrypts / classifies / JSON-parses the response.       *)
(*                                                                         *)
(* Strings that travel on the wire are modelled as "texts": a text is      *)
(* either a plain string or the base64 form of a secretbox ciphertext,     *)
(* which is kept symbolically as (plaintext, key, nonce).  Optional fields *)
(* (undefined / null in the source) are sequences of length 0 or 1.        *)
(***************************************************************************)
EXTENDS Integers, Sequences, FiniteSets, TLC

\* ------------------------------------------------------------ bounds
\* Number of call slots of one client instance (concurrent Client.do calls).
MaxCalls == 2
\* Keys the upstream service may have sealed a response under (1..MaxKey);
\* the client is configured with key 1 or with none.
MaxKey == 2

Calls == 1..MaxCalls
Keys == 1..MaxKey

\* ------------------------------------------------------------ optional values
None == <<>>
Some(x) == <<x>>

\* ------------------------------------------------------------ texts and crypto
NoKey == 0
NoNonce == 0
TheNonce == 1

Plain(s) == [enc |-> FALSE, s |-> s, k |-> 0, n |-> 0]
Sealed(s, k, n) == [enc |-> TRUE, s |-> s, k |-> k, n |-> n]

\* input.length > 0: the base64 of a secretbox (16-byte tag at least) is never empty.
NonEmpty(t) == t.enc \/ t.s # ""

\* libsodium rejects an undefined key or nonce by throwing.
CanSeal(cf) == cf.sharedKey # NoKey /\ cf.nonce # NoNonce

encryptAndBase64(cf, input) == Sealed(input, cf.sharedKey, cf.nonce)

\* crypto_secretbox_open_easy(from_base64(input), nonce, key): throws unless the
\* input is the base64 of a box sealed under exactly this key and nonce.
CanOpen(cf, t) == CanSeal(cf) /\ t.enc /\ t.k = cf.sharedKey /\ t.n = cf.nonce

unbase64AndDecrypt(cf, t) == Plain(t.s)

\* ------------------------------------------------------------ JSON
ObjA1 == <<"obj", "a", "1">>
Num1 == <<"num", "1">>
StrOK == <<"str", "OK">>
Cyclic == <<"cyclic">>

JsonUniverse == {ObjA1, Num1, StrOK}

\* JSON.stringify throws a TypeError on a cyclic structure.
CanStringify(j) == j[1] # "cyclic"

JSONstringify(j) ==
  CASE j[1] = "obj" -> "{\"" \o j[2] \o "\":" \o j[3] \o "}"
    [] j[1] = "str" -> "\"" \o j[2] \o "\""
    [] OTHER -> j[2]

\* JSON.parse throws a SyntaxError on a text that is no JSON document.
CanParse(s) == \E j \in JsonUniverse : JSONstringify(j) = s

JSONparse(s) == CHOOSE j \in JsonUniverse : JSONstringify(j) = s

\* ------------------------------------------------------------ query strings
RECURSIVE querystringStringify(_)
querystringStringify(q) ==
  IF q = <<>> THEN ""
  ELSE LET pair == q[1][1] \o "=" \o q[1][2]
       IN IF Len(q) = 1 THEN pair
          ELSE pair \o "&" \o querystringStringify(Tail(q))

\* ------------------------------------------------------------ the sentinel table
doNotDecryptResponses == (200 :> "OK") @@ (202 :> "Accepted") @@ (500 :> "Server Error")

\* The table consulted by text alone: any status's marker counts.
IsSentinelAnyStatus(status, text) ==
  \E st \in DOMAIN doNotDecryptResponses : text = Plain(doNotDecryptResponses[st])

IsSentinel(status, text) ==
  /\ status \in DOMAIN doNotDecryptResponses
  /\ text = Plain(doNotDecryptResponses[status])

\* ------------------------------------------------------------ the logger
\* client.logger: absent, a logger that returns, or a logger that throws at
\* one of the three places it is called from.
LoggerModes == {"none", "ok", "throwCalling", "throwReqBody", "throwRespBody"}
HasLogger(lg) == lg # "none"
LoggerThrows(lg, point) ==
  \/ lg = "throwCalling" /\ point = "Calling"
  \/ lg = "throwReqBody" /\ point = "REQ BODY"
  \/ lg = "throwRespBody" /\ point = "RESP BODY"

\* ------------------------------------------------------------ data
\* launcherBaseUrl is a URL without a query component (as the default,
\* 'http://localhost:8100/'), so url.parse leaves search and query unset.
DefaultBaseUrl == "http://localhost:8100/"

Confs ==
  [launcherBaseUrl : {DefaultBaseUrl},
   token : {None, Some("tok")},
   sharedKey : {NoKey, 1},
   nonce : {NoNonce, TheNonce}]

QueryA1 == << <<"a", "1">> >>

Requests ==
  [path : {"/foo"},
   method : {"POST"},
   jsonBody : {None, Some(ObjA1), Some(Cyclic)},
   rawBody : {None, Some("hello")},
   query : {None, Some(QueryA1)},
   doNotEncrypt : BOOLEAN,
   jsonResponse : BOOLEAN,
   doNotAuth : BOOLEAN]

Statuses == {199, 200, 202, 299, 300, 404, 500}

ResponseTexts ==
  {Plain(""), Plain("OK"), Plain("Accepted"), Plain("Server Error"), Plain("{\"a\":1}")}
  \cup {Sealed(s, k, TheNonce) : s \in {"{\"a\":1}", "denied"}, k \in Keys}

Responses == [status : Statuses, text : ResponseTexts, body : {None}]

\* What the transport hands to the end callback: (err, res).
TransportResults ==
  [err : {None}, res : {Some(r) : r \in Responses}]
  \cup [err : {Some("ECONNREFUSED")}, res : {None}]
  \cup [err : {Some("Not Found")}, res : {Some([status |-> 404, text |-> Plain("OK"), body |-> None])}]

NoRequest ==
  [path |-> "", method |-> "", jsonBody |-> None, rawBody |-> None, query |-> None,
   doNotEncrypt |-> FALSE, jsonResponse |-> FALSE, doNotAuth |-> FALSE]
NoHeaders == [contentType |-> None, authorization |-> None]
NoHttpReq ==
  [method |-> "", base |-> "", pathname |-> "", search |-> None, body |-> None,
   headers |-> NoHeaders]
NoResponse == [status |-> 0, text |-> Plain(""), body |-> None]
NoTransportResult == [err |-> None, res |-> None]
Pending == [kind |-> "pending", errCls |-> "", errVal |-> "", resp |-> NoResponse]
Resolved(resp) == [kind |-> "resolved", errCls |-> "", errVal |-> "", resp |-> resp]
Rejected(cls, val, resp) == [kind |-> "rejected", errCls |-> cls, errVal |-> val, resp |-> resp]
ApiError(resp) == Rejected("ApiError", "", resp)
NoCount ==
  [enc |-> 0, dec |-> 0, parse |-> 0, log |-> 0,
   build |-> 0, dispatch |-> 0, handle |-> 0, settle |-> 0]

\* ------------------------------------------------------------ buildRequest
\* url.format(fullUrl): the search the URL ends up with (without its '?').
FormatSearch(cf, rq) ==
  IF rq.query = None THEN None
  ELSE IF rq.doNotEncrypt
       THEN IF querystringStringify(rq.query[1]) = "" THEN None
            ELSE Some(Plain(querystringStringify(rq.query[1])))
       ELSE Some(encryptAndBase64(cf, querystringStringify(rq.query[1])))

\* if (req.jsonBody != null) req.rawBody = JSON.stringify(req.jsonBody)
RawBodyOf(rq) ==
  IF rq.jsonBody # None THEN Some(JSONstringify(rq.jsonBody[1])) ELSE rq.rawBody

\* The header chosen by the kind of body alone, encrypted or not.
ContentTypeByBodyKind(rq) ==
  IF rq.jsonBody # None THEN "application/json" ELSE "text/plain"

ContentTypeOf(rq) ==
  IF rq.doNotEncrypt
  THEN IF rq.jsonBody # None THEN "application/json" ELSE "text/plain"
  ELSE "text/plain"

\* The body encrypted whatever doNotEncrypt says.
SentBodyAlwaysEncrypted(cf, rq, raw) == encryptAndBase64(cf, raw)

SentBody(cf, rq, raw) ==
  IF rq.doNotEncrypt THEN Plain(raw) ELSE encryptAndBase64(cf, raw)

AuthHeader(cf, rq) ==
  IF cf.token # None /\ ~rq.doNotAuth THEN Some("Bearer " \o cf.token[1]) ELSE None

BuildFailed(cls, raw, enc, log) ==
  [ok |-> FALSE, errCls |-> cls, httpReq |-> NoHttpReq, rawBody |-> raw,
   enc |-> enc, log |-> log]

\* The result of buildRequest(req) on a client with conf cf and logger lg: the
\* superagent request it returns, or the class of the exception it throws; the
\* rawBody it leaves in the descriptor; how often it called encryptAndBase64 and
\* the logger.
BuildRequest(cf, lg, rq) ==
  LET encQ == IF rq.query # None /\ ~rq.doNotEncrypt THEN 1 ELSE 0
      log1 == IF HasLogger(lg) THEN 1 ELSE 0
      raw == RawBodyOf(rq)
      log2 == IF HasLogger(lg) /\ raw # None THEN log1 + 1 ELSE log1
      encB == IF raw # None /\ ~rq.doNotEncrypt THEN encQ + 1 ELSE encQ
  IN IF encQ = 1 /\ ~CanSeal(cf) THEN BuildFailed("SodiumError", rq.rawBody, encQ, 0)
     ELSE IF LoggerThrows(lg, "Calling") THEN BuildFailed("LoggerError", rq.rawBody, encQ, log1)
     ELSE IF rq.jsonBody # None /\ ~CanStringify(rq.jsonBody[1])
          THEN BuildFailed("TypeError", rq.rawBody, encQ, log1)
     ELSE IF raw # None /\ LoggerThrows(lg, "REQ BODY") THEN BuildFailed("LoggerError", raw, encQ, log2)
     ELSE IF raw # None /\ ~rq.doNotEncrypt /\ ~CanSeal(cf)
          THEN BuildFailed("SodiumError", raw, encB, log2)
     ELSE [ok |-> TRUE, errCls |-> "",
           httpReq |->
             [method |-> rq.method, base |-> cf.launcherBaseUrl, pathname |-> rq.path,
              search |-> FormatSearch(cf, rq),
              body |-> IF raw = None THEN None ELSE Some(SentBody(cf, rq, raw[1])),
              headers |->
                [contentType |-> IF raw = None THEN None ELSE Some(ContentTypeOf(rq)),
                 authorization |-> AuthHeader(cf, rq)]],
           rawBody |-> raw, enc |-> encB, log |-> log2]

\* ------------------------------------------------------------ handleResponse
\* The decision without the look at the sentinel table.
ShouldDecryptNoSentinel(resp, decrypt) == decrypt /\ NonEmpty(resp.text)

ShouldDecrypt(resp, decrypt) ==
  decrypt /\ NonEmpty(resp.text) /\ ~IsSentinel(resp.status, resp.text)

\* The upper limit of the success range off by one: 300 passes.
IsErrorStatusOffByOne(status) == status < 200 \/ status > 300

IsErrorStatus(status) == status < 200 \/ status >= 300

HandleFailed(cls, resp, dec, parse, log) ==
  [ok |-> FALSE, errCls |-> cls, resp |-> resp, dec |-> dec, parse |-> parse, log |-> log]

\* The result of handleResponse(resp, decrypt, jsonResponse): the response it
\* returns, or the class of the exception it throws; the response object as it
\* leaves it; how often it called unbase64AndDecrypt, JSON.parse and the logger.
HandleResponse(cf, lg, resp, decrypt, jsonResponse) ==
  LET dec == IF ShouldDecrypt(resp, decrypt) THEN 1 ELSE 0
      r1 == IF dec = 1 /\ CanOpen(cf, resp.text)
            THEN [resp EXCEPT !.text = unbase64AndDecrypt(cf, resp.text)]
            ELSE resp
      log == IF HasLogger(lg) THEN 1 ELSE 0
  IN IF dec = 1 /\ ~CanOpen(cf, resp.text) THEN HandleFailed("SodiumError", resp, dec, 0, 0)
     ELSE IF LoggerThrows(lg, "RESP BODY") THEN HandleFailed("LoggerError", r1, dec, 0, log)
     ELSE IF IsErrorStatus(r1.status) THEN HandleFailed("ApiError", r1, dec, 0, log)
     ELSE IF jsonResponse /\ ~CanParse(r1.text.s) THEN HandleFailed("SyntaxError", r1, dec, 1, log)
     ELSE [ok |-> TRUE, errCls |-> "",
           resp |-> IF jsonResponse THEN [r1 EXCEPT !.body = Some(JSONparse(r1.text.s))] ELSE r1,
           dec |-> dec, parse |-> IF jsonResponse THEN 1 ELSE 0, log |-> log]

\* ------------------------------------------------------------ state
VARIABLES
  conf,      \* client.conf
  conf0,     \* the conf the client was constructed with
  logger,    \* client.logger
  pc,        \* per call: idle, built, inflight, responded, done
  req0,      \* per call: the descriptor as the caller passed it
  req,       \* per call: the descriptor object (buildRequest writes its rawBody)
  httpReq,   \* per call: the superagent request buildRequest returned
  upstream,  \* per call: what the transport handed to the end callback
  resp,      \* per call: the response object (handleResponse rewrites it)
  outcome,   \* per call: how the promise returned by do() settled
  count      \* per call: invocations of the collaborators and of the steps

vars == <<conf, conf0, logger, pc, req0, req, httpReq, upstream, resp, outcome, count>>

\* new Client(conf); the caller may set client.logger. No call has been made.
Init ==
  /\ conf \in Confs
  /\ conf0 = conf
  /\ logger \in LoggerModes
  /\ pc = [c \in Calls |-> "idle"]
  /\ req0 = [c \in Calls |-> NoRequest]
  /\ req = [c \in Calls |-> NoRequest]
  /\ httpReq = [c \in Calls |-> NoHttpReq]
  /\ upstream = [c \in Calls |-> NoTransportResult]
  /\ resp = [c \in Calls |-> NoResponse]
  /\ outcome = [c \in Calls |-> Pending]
  /\ count = [c \in Calls |-> NoCount]

\* req.rawBody = ...: the write goes to the descriptor of this call.
SetRawBody(reqs, c, raw) == [reqs EXCEPT ![c].rawBody = raw]

\* The request dispatched whether or not the build hook resolved.
AfterBuildAlwaysDispatch(b) == "built"

\* What do() hands to the transport, and when: the request is dispatched only
\* if the request-build hook resolved.
AfterBuild(b) == IF b.ok THEN "built" ELSE "done"

\* client.do(req), up to the first suspension: the requestBuilder hook runs
\* buildRequest synchronously inside its promise executor; an exception thrown
\* there rejects the promise, and with it the promise do() returns.
Do(c, rq) ==
  /\ pc[c] = "idle"
  /\ LET b == BuildRequest(conf, logger, rq)
     IN /\ pc' = [pc EXCEPT ![c] = AfterBuild(b)]
        /\ req0' = [req0 EXCEPT ![c] = rq]
        /\ req' = SetRawBody([req EXCEPT ![c] = rq], c, b.rawBody)
        /\ httpReq' = [httpReq EXCEPT ![c] = b.httpReq]
        /\ outcome' = [outcome EXCEPT ![c] =
                         IF b.ok THEN Pending ELSE Rejected(b.errCls, "", NoResponse)]
        /\ count' = [count EXCEPT ![c].build = @ + 1, ![c].enc = @ + b.enc,
                                  ![c].log = @ + b.log,
                                  ![c].settle = IF b.ok THEN @ ELSE @ + 1]
  /\ UNCHANGED <<conf, conf0, logger, upstream, resp>>

\* .then(httpReq => new Promise(... httpReq.end(cb))): the request is dispatched.
Dispatch(c) ==
  /\ pc[c] = "built"
  /\ pc' = [pc EXCEPT ![c] = "inflight"]
  /\ count' = [count EXCEPT ![c].dispatch = @ + 1]
  /\ UNCHANGED <<conf, conf0, logger, req0, req, httpReq, upstream, resp, outcome>>

\* The callback looking at res first: an error that comes with a response is dropped.
EndCallbackPrefersResponse(t) ==
  IF t.res # None THEN Pending
  ELSE Rejected("TransportError", t.err[1], NoResponse)

\* if (err != null) reject(err) else resolve(res)
EndCallback(t) ==
  IF t.err # None THEN Rejected("TransportError", t.err[1], NoResponse)
  ELSE Pending

\* The transport calls the end callback with (err, res).
End(c, t) ==
  /\ pc[c] = "inflight"
  /\ upstream' = [upstream EXCEPT ![c] = t]
  /\ LET o == EndCallback(t)
     IN /\ outcome' = [outcome EXCEPT ![c] = o]
        /\ pc' = [pc EXCEPT ![c] = IF o.kind = "pending" THEN "responded" ELSE "done"]
        /\ resp' = [resp EXCEPT ![c] = IF o.kind = "pending" THEN t.res[1] ELSE @]
        /\ count' = [count EXCEPT ![c].settle = IF o.kind = "pending" THEN @ ELSE @ + 1]
  /\ UNCHANGED <<conf, conf0, logger, req0, req, httpReq>>

\* The descriptor kept in a field of the client instead of the closure: a call
\* started meanwhile replaces it.
CapturedReqShared(reqs, c) ==
  LET others == {d \in DOMAIN reqs : d # c /\ reqs[d] # NoRequest}
  IN IF others = {} THEN reqs[c] ELSE reqs[CHOOSE d \in others : TRUE]

\* The req the second then-callback of do() closes over: this call's descriptor.
CapturedReq(reqs, c) == reqs[c]

\* How the promise settles from what handleResponse returned or threw.
HandlerOutcome(h) ==
  IF h.ok THEN Resolved(h.resp)
  ELSE IF h.errCls = "ApiError" THEN ApiError(h.resp)
  ELSE Rejected(h.errCls, "", NoResponse)

\* .then(resp => this.responseHandler(this, resp, !req.doNotEncrypt, req.jsonResponse))
Handle(c) ==
  /\ pc[c] = "responded"
  /\ LET rq == CapturedReq(req, c)
         h == HandleResponse(conf, logger, resp[c], ~rq.doNotEncrypt, rq.jsonResponse)
     IN /\ resp' = [resp EXCEPT ![c] = h.resp]
        /\ outcome' = [outcome EXCEPT ![c] = HandlerOutcome(h)]
        /\ count' = [count EXCEPT ![c].handle = @ + 1, ![c].dec = @ + h.dec,
                                  ![c].parse = @ + h.parse, ![c].log = @ + h.log,
                                  ![c].settle = @ + 1]
  /\ pc' = [pc EXCEPT ![c] = "done"]
  /\ UNCHANGED <<conf, conf0, logger, req0, req, httpReq, upstream>>

\* One call on the client.
Next ==
  \/ \E rq \in Requests : Do(1, rq)
  \/ Dispatch(1)
  \/ \E t \in TransportResults : End(1, t)
  \/ Handle(1)

Spec == Init /\ [][Next]_vars

\* Calls running concurrently on the same client: every interleaving of the
\* steps of MaxCalls calls, each with a descriptor of its own.
ConcRequests ==
  {r \in Requests : /\ r.jsonBody # Some(Cyclic)
                    /\ r.query = None
                    /\ ~r.doNotAuth
                    /\ r.jsonResponse = ~r.doNotEncrypt}

ConcResults ==
  {[err |-> None, res |-> Some([status |-> 200, text |-> Sealed("{\"a\":1}", 1, TheNonce), body |-> None])],
   [err |-> None, res |-> Some([status |-> 500, text |-> Plain("Server Error"), body |-> None])],
   [err |-> Some("ECONNREFUSED"), res |-> None]}

InitConc ==
  /\ Init
  /\ conf.sharedKey = 1 /\ conf.nonce = TheNonce /\ conf.token # None
  /\ logger \in {"none", "ok"}

NextConc ==
  \E c \in Calls :
    \/ \E rq \in ConcRequests : Do(c, rq)
    \/ Dispatch(c)
    \/ \E t \in ConcResults : End(c, t)
    \/ Handle(c)

SpecConc == InitConc /\ [][NextConc]_vars

\* do(req) as a function of its inputs: the outcome of one call run on its own
\* on a client with conf cf and logger lg, when the transport answers t.
DoAlone(cf, lg, rq, t) ==
  LET b == BuildRequest(cf, lg, rq)
  IN IF ~b.ok THEN Rejected(b.errCls, "", NoResponse)
     ELSE IF EndCallback(t).kind # "pending" THEN EndCallback(t)
     ELSE HandlerOutcome(HandleResponse(cf, lg, t.res[1], ~rq.doNotEncrypt, rq.jsonResponse))

\* ------------------------------------------------------------ the claims
\* Vocabulary of the claims, stated on the recorded inputs of a call.
Started(c) == pc[c] # "idle"
RequestBuilt(c) == pc[c] \in {"built", "inflight", "responded"} \/ count[c].dispatch = 1
GotResponse(c) == upstream[c].err = None /\ upstream[c].res # None
Handled(c) == count[c].handle = 1
UpStatus(c) == upstream[c].res[1].status
UpText(c) == upstream[c].res[1].text
DecryptFlag(c) == ~req0[c].doNotEncrypt
Success(status) == status \in 200..299
MarkerCase(status, text) ==
  \/ status = 200 /\ text = Plain("OK")
  \/ status = 202 /\ text = Plain("Accepted")
  \/ status = 500 /\ text = Plain("Server Error")
ValidCiphertext(t) ==
  /\ t.enc
  /\ conf.sharedKey # NoKey /\ conf.nonce # NoNonce
  /\ t.k = conf.sharedKey /\ t.n = conf.nonce
SeenByCaller(c) == outcome[c].kind = "resolved" \/ outcome[c].errCls = "ApiError"

\* C1: a response with status 200, 202 or 500 whose body text is exactly that
\* status's marker is never decrypted, whatever the decrypt flag, and the body
\* text the caller sees (resolved response or ApiError) is the text received.
C1_SentinelNeverDecrypted ==
  \A c \in Calls :
    (GotResponse(c) /\ MarkerCase(UpStatus(c), UpText(c)))
      => /\ count[c].dec = 0
         /\ resp[c].text = UpText(c)
         /\ SeenByCaller(c) => outcome[c].resp.text = UpText(c)

C1_Witness ==
  /\ Handled(1) /\ DecryptFlag(1)
  /\ UpStatus(1) = 500 /\ UpText(1) = Plain("Server Error")
  /\ outcome[1].errCls = "ApiError"
  /\ outcome[1].resp.text = Plain("Server Error")
  /\ count[1].dec = 0

C2_Attempted(c) ==
  DecryptFlag(c) /\ UpText(c) # Plain("") /\ ~MarkerCase(UpStatus(c), UpText(c))
C2_TextAfter(c) == IF C2_Attempted(c) THEN Plain(UpText(c).s) ELSE UpText(c)

C3_PlainBody(c) ==
  IF req0[c].jsonBody # None THEN Some(Plain(JSONstringify(req0[c].jsonBody[1])))
  ELSE IF req0[c].rawBody # None THEN Some(Plain(req0[c].rawBody[1]))
  ELSE None
C3_PlainQuery(c) ==
  IF req0[c].query = None THEN None
  ELSE Some(Plain(querystringStringify(req0[c].query[1])))

C5_DecryptBeforeClassify ==
  \A c \in Calls :
    (Handled(c) /\ GotResponse(c) /\ DecryptFlag(c)
       /\ ~Success(UpStatus(c)) /\ ValidCiphertext(UpText(c)))
      => /\ outcome[c].errCls = "ApiError"
         /\ outcome[c].resp.text = Plain(UpText(c).s)
         /\ count[c].parse = 0

\* C5 restricted to loggers that return: the only calls on which it fails are
\* those whose logger throws on 'RESP BODY'.
C5_UnlessLoggerThrows ==
  \A c \in Calls :
    (Handled(c) /\ GotResponse(c) /\ DecryptFlag(c) /\ logger # "throwRespBody"
       /\ ~Success(UpStatus(c)) /\ ValidCiphertext(UpText(c)))
      => /\ outcome[c].errCls = "ApiError"
         /\ outcome[c].resp.text = Plain(UpText(c).s)
         /\ count[c].dec = 1
         /\ count[c].parse = 0

\* C6: an error reported by the transport's end callback rejects the call with
\* exactly that error, not an ApiError, whether or not a response comes with it;
\* the response handler does not run.
C6_TransportErrorUnchanged ==
  \A c \in Calls :
    upstream[c].err # None
      => /\ outcome[c].kind = "rejected"
         /\ outcome[c].errCls = "TransportError"
         /\ outcome[c].errVal = upstream[c].err[1]
         /\ count[c].handle = 0 /\ count[c].dec = 0

C6_Witness ==
  /\ pc[1] = "done"
  /\ upstream[1].err = Some("Not Found") /\ upstream[1].res # None
  /\ outcome[1].errVal = "Not Found"

\* C7: a call settles the same way with a logger (one that throws included) as
\* the same call does with no logger, and without a logger none is called.
C7_LoggerNeverChangesOutcome ==
  \A c \in Calls :
    pc[c] = "done"
      => /\ logger = "none" => count[c].log = 0
         /\ IF BuildRequest(conf, "none", req0[c]).ok
            THEN /\ count[c].dispatch = 1
                 /\ outcome[c] = DoAlone(conf, "none", req0[c], upstream[c])
            ELSE outcome[c] = DoAlone(conf, "none", req0[c], NoTransportResult)

\* C7 restricted to loggers that return: the calls on which it fails are those
\* whose logger throws.
C7_UnlessLoggerThrows ==
  \A c \in Calls :
    (pc[c] = "done" /\ logger \in {"none", "ok"})
      => /\ logger = "none" => count[c].log = 0
         /\ outcome[c] = DoAlone(conf, "none", req0[c], upstream[c])

\* C8: calls interleaved on one client do not interfere: the request each hands
\* to the transport and the way each settles are those of the call run alone,
\* and conf is the conf the client was constructed with.
C8_ConcurrentCallsIndependent ==
  /\ conf = conf0
  /\ \A c \in Calls :
       /\ RequestBuilt(c) => httpReq[c] = BuildRequest(conf0, logger, req0[c]).httpReq
       /\ pc[c] = "done" => outcome[c] = DoAlone(conf0, logger, req0[c], upstream[c])

C8_Witness ==
  /\ pc[1] = "done" /\ outcome[1].kind = "resolved"
  /\ pc[2] = "responded"
  /\ req0[1].doNotEncrypt # req0[2].doNotEncrypt
  /\ req0[1].jsonBody # None /\ req0[2].jsonBody = None /\ req0[2].rawBody # None

\* C9: handleResponse attempts decryption exactly when the decrypt flag is set,
\* the body text is non-empty and the text is not the marker of the response's
\* own status; the marker of another status is treated as ciphertext.
C9_DecryptIff ==
  \A c \in Calls :
    Handled(c)
      => (count[c].dec = 1
            <=> (DecryptFlag(c) /\ UpText(c) # Plain("")
                   /\ ~MarkerCase(UpStatus(c), UpText(c))))
         /\ count[c].dec \in {0, 1}

C9_Witness ==
  /\ Handled(1) /\ DecryptFlag(1)
  /\ UpStatus(1) = 202 /\ UpText(1) = Plain("OK")
  /\ count[1].dec = 1
  /\ outcome[1].errCls = "SodiumError"

\* C10: a call is one-shot and ordered: the build hook runs once; the request is
\* dispatched at most once and never after a failed build; the response handler
\* runs at most once and only after the transport delivered a response without
\* error; the call settles exactly once, and a call whose build hook or
\* transport has completed can always take its next step.
C10_OneShotOrdered ==
  \A c \in Calls :
    /\ count[c].build = (IF Started(c) THEN 1 ELSE 0)
    /\ count[c].dispatch \in {0, 1}
    /\ count[c].handle \in {0, 1}
    /\ count[c].dispatch = 1 => BuildRequest(conf, logger, req0[c]).ok
    /\ (Started(c) /\ ~BuildRequest(conf, logger, req0[c]).ok)
         => pc[c] = "done" /\ count[c].dispatch = 0
    /\ count[c].handle = 1 => count[c].dispatch = 1 /\ GotResponse(c)
    /\ upstream[c] # NoTransportResult => count[c].dispatch = 1
    /\ count[c].settle = (IF pc[c] = "done" THEN 1 ELSE 0)
    /\ pc[c] = "done" <=> outcome[c].kind # "pending"
    /\ pc[c] = "built" => ENABLED Dispatch(c)
    /\ pc[c] = "responded" => ENABLED Handle(c)

C10_Witness ==
  /\ pc[1] = "done"
  /\ count[1].build = 1 /\ count[1].dispatch = 1
  /\ count[1].handle = 1 /\ count[1].settle = 1
  /\ outcome[1].kind = "resolved"

====
